---- MODULE Spec2Model ----
(***************************************************************************)
(* Model of the Hotplates package: the MSHPro frame codec                  *)
(* (MSHProCommunication.py), the threaded duplex transaction               *)
(* (SerialThreadedDuplex.py) and the command sequencer (MSHPro.py).        *)
(*                                                                         *)
(* Python numbers are modelled as fixed-point integers in hundredths       *)
(* (Scale = 100), so that int(..) and int(float(..) * 10) truncate as the  *)
(* code does: 200.05 degC is Num(20005), 560 rpm is Num(56000).            *)
(***************************************************************************)
EXTENDS Integers, Sequences, FiniteSets, TLC

VARIABLES
    dev,        \* the hotplate: set values (wire units), on flags, mode
    isOpen,     \* serial.Serial.is_open of MSHPro.__Serial
    call,       \* the sequencer method last invoked, with its arguments
    pre,        \* the hotplate state when that method was invoked
    log,        \* the transactions that method issued, in order
    outcome,    \* what reached the caller: exception and return value
    codec,      \* codec specification: last to_bytes / parse_response call
    thr,        \* duplex specification: program counter of each caller
    rdr,        \* duplex specification: state of each reader thread
    rx_thread,  \* Serial.__rx_thread: 0 for None, else an index of rdr
    rx_value,   \* Serial.__rx_value
    rx_exception, \* Serial.__rx_exception
    wire,       \* duplex specification: bytes waiting in the input buffer
    hist        \* duplex specification: what each caller was handed back

vars == <<dev, isOpen, call, pre, log, outcome, codec,
          thr, rdr, rx_thread, rx_value, rx_exception, wire, hist>>

seqVars == <<dev, isOpen, call, pre, log, outcome>>
codecVars == <<codec>>
duplexVars == <<thr, rdr, rx_thread, rx_value, rx_exception, wire, hist>>

-----------------------------------------------------------------------------
(* Python values *)

\* fixed-point scale of the modelled Python numbers (hundredths)
Scale == 100

None == [kind |-> "None"]
Num(n) == [kind |-> "num", n |-> n]
Str(s) == [kind |-> "str", s |-> s]
Off == Str("Off")

IsNum(v) == v.kind = "num"

\* truncation toward zero, as Python's int() on a float
Trunc(n, d) == IF n >= 0 THEN n \div d ELSE -((-n) \div d)

\* bool(val) of a Python value
Truthy(v) ==
    CASE v.kind = "None" -> FALSE
      [] v.kind = "num" -> v.n # 0
      [] v.kind = "str" -> v.s # ""

-----------------------------------------------------------------------------
(* MSHProCommunication.py *)

Commands == {"PING", "INFO", "STATUS", "STIR", "HEAT", "_MODE"}

\* COMMUNICATION.<member>.value, the opcode
value(cmd) ==
    CASE cmd = "PING" -> 160
      [] cmd = "INFO" -> 161
      [] cmd = "STATUS" -> 162
      [] cmd = "STIR" -> 177
      [] cmd = "HEAT" -> 178
      [] cmd = "_MODE" -> 179

len_rx(cmd) == IF cmd \in {"INFO", "STATUS"} THEN 11 ELSE 6

RECURSIVE checksum(_)
checksum(val) ==
    IF val = <<>> THEN 0
    ELSE (checksum(SubSeq(val, 1, Len(val) - 1)) + val[Len(val)]) % 256

NoExc == "none"

\* to_int with the HEAT factor of 10 forgotten
to_int_unscaled(cmd, val) ==
    IF ~IsNum(val) THEN [exc |-> "ValueError", v |-> 0]
    ELSE [exc |-> NoExc, v |-> Trunc(val.n, Scale)]

\* int(val) for STIR, int(float(val) * 10) for HEAT; a str that is no
\* number literal ("Off") raises ValueError in both
to_int(cmd, val) ==
    IF ~IsNum(val) THEN [exc |-> "ValueError", v |-> 0]
    ELSE IF cmd = "STIR" THEN [exc |-> NoExc, v |-> Trunc(val.n, Scale)]
    ELSE [exc |-> NoExc, v |-> Trunc(val.n * 10, Scale)]

\* to_bytes sending the value low byte first
to_bytes_low_first(cmd, val) ==
    IF cmd = "PING" THEN [exc |-> NoExc, bytes |-> <<254, 160, 0, 0, 0, 160>>]
    ELSE IF cmd = "INFO" THEN [exc |-> NoExc, bytes |-> <<254, 161, 0, 0, 0, 161>>]
    ELSE IF cmd = "STATUS" THEN [exc |-> NoExc, bytes |-> <<254, 162, 0, 0, 0, 162>>]
    ELSE IF cmd = "_MODE" THEN [exc |-> NoExc, bytes |-> <<254, 179, 0, 0, 0, 179>>]
    ELSE IF val = None THEN [exc |-> "ValueError", bytes |-> <<>>]
    ELSE LET c == to_int(cmd, val) IN
         IF c.exc # NoExc THEN [exc |-> c.exc, bytes |-> <<>>]
         ELSE IF ~(0 <= c.v /\ c.v <= 65535)
              THEN [exc |-> "ValueError", bytes |-> <<>>]
         ELSE LET encoded_value ==
                      <<value(cmd), c.v % 256, (c.v \div 256) % 256>>
              IN [exc |-> NoExc,
                  bytes |-> <<254>> \o encoded_value
                            \o <<0, checksum(encoded_value)>>]

\* to_bytes without the range check: the value is cut to two bytes
to_bytes_unchecked(cmd, val) ==
    IF cmd = "PING" THEN [exc |-> NoExc, bytes |-> <<254, 160, 0, 0, 0, 160>>]
    ELSE IF cmd = "INFO" THEN [exc |-> NoExc, bytes |-> <<254, 161, 0, 0, 0, 161>>]
    ELSE IF cmd = "STATUS" THEN [exc |-> NoExc, bytes |-> <<254, 162, 0, 0, 0, 162>>]
    ELSE IF cmd = "_MODE" THEN [exc |-> NoExc, bytes |-> <<254, 179, 0, 0, 0, 179>>]
    ELSE IF val = None THEN [exc |-> "ValueError", bytes |-> <<>>]
    ELSE LET c == to_int(cmd, val) IN
         IF c.exc # NoExc THEN [exc |-> c.exc, bytes |-> <<>>]
         ELSE LET encoded_value ==
                      <<value(cmd), (c.v \div 256) % 256, c.v % 256>>
              IN [exc |-> NoExc,
                  bytes |-> <<254>> \o encoded_value
                            \o <<0, checksum(encoded_value)>>]

to_bytes(cmd, val) ==
    IF cmd = "PING" THEN [exc |-> NoExc, bytes |-> <<254, 160, 0, 0, 0, 160>>]
    ELSE IF cmd = "INFO" THEN [exc |-> NoExc, bytes |-> <<254, 161, 0, 0, 0, 161>>]
    ELSE IF cmd = "STATUS" THEN [exc |-> NoExc, bytes |-> <<254, 162, 0, 0, 0, 162>>]
    ELSE IF cmd = "_MODE" THEN [exc |-> NoExc, bytes |-> <<254, 179, 0, 0, 0, 179>>]
    ELSE IF val = None THEN [exc |-> "ValueError", bytes |-> <<>>]
    ELSE LET c == to_int(cmd, val) IN
         IF c.exc # NoExc THEN [exc |-> c.exc, bytes |-> <<>>]
         ELSE IF ~(0 <= c.v /\ c.v <= 65535)
              THEN [exc |-> "ValueError", bytes |-> <<>>]
         ELSE LET encoded_value ==
                      <<value(cmd), (c.v \div 256) % 256, c.v % 256>>
              IN [exc |-> NoExc,
                  bytes |-> <<254>> \o encoded_value
                            \o <<0, checksum(encoded_value)>>]

\* "_ABC"[i]: index 0 is the placeholder "_", an index past 3 is an IndexError
ModeLetter(i) ==
    CASE i = 0 -> "_"
      [] i = 1 -> "A"
      [] i = 2 -> "B"
      [] i = 3 -> "C"

\* b_data[i] with Python's 0-based index; b_data is b[2:-1]
Data(b, i) == b[i + 3]
DataLen(b) == Len(b) - 3

\* parse_info reading the on flags without the inversion
parse_info_uninverted(b) ==
    IF DataLen(b) < 6 \/ Data(b, 0) > 3
    THEN [exc |-> "ResponseParseException", response |-> <<>>]
    ELSE [exc |-> NoExc,
          response |->
              [mode |-> Str(ModeLetter(Data(b, 0))),
               stir_on |-> (Data(b, 1) # 0),
               heat_on |-> (Data(b, 2) # 0),
               heat_limit |-> Num((Data(b, 3) * 256 + Data(b, 4)) * (Scale \div 10)),
               heat_alarm |-> (Data(b, 5) = 0),
               success |-> TRUE]]

parse_info(b) ==
    IF DataLen(b) < 6 \/ Data(b, 0) > 3
    THEN [exc |-> "ResponseParseException", response |-> <<>>]
    ELSE [exc |-> NoExc,
          response |->
              [mode |-> Str(ModeLetter(Data(b, 0))),
               stir_on |-> (Data(b, 1) = 0),
               heat_on |-> (Data(b, 2) = 0),
               heat_limit |-> Num((Data(b, 3) * 256 + Data(b, 4)) * (Scale \div 10)),
               heat_alarm |-> (Data(b, 5) = 0),
               success |-> TRUE]]

\* parse_status reading the two bytes of each field low byte first
parse_status_low_first(b) ==
    IF DataLen(b) < 8
    THEN [exc |-> "ResponseParseException", response |-> <<>>]
    ELSE [exc |-> NoExc,
          response |->
              [stir_set |-> Num((Data(b, 1) * 256 + Data(b, 0)) * Scale),
               stir_actual |-> Num((Data(b, 3) * 256 + Data(b, 2)) * Scale),
               heat_set |-> Num((Data(b, 5) * 256 + Data(b, 4)) * (Scale \div 10)),
               heat_actual |-> Num((Data(b, 7) * 256 + Data(b, 6)) * (Scale \div 10)),
               success |-> TRUE]]

parse_status(b) ==
    IF DataLen(b) < 8
    THEN [exc |-> "ResponseParseException", response |-> <<>>]
    ELSE [exc |-> NoExc,
          response |->
              [stir_set |-> Num((Data(b, 0) * 256 + Data(b, 1)) * Scale),
               stir_actual |-> Num((Data(b, 2) * 256 + Data(b, 3)) * Scale),
               heat_set |-> Num((Data(b, 4) * 256 + Data(b, 5)) * (Scale \div 10)),
               heat_actual |-> Num((Data(b, 6) * 256 + Data(b, 7)) * (Scale \div 10)),
               success |-> TRUE]]

\* parse_ack returning the initial {"success": False} for a payload it does
\* not know, instead of raising
parse_ack_reports_failure(cmd, b) ==
    LET b_data == SubSeq(b, 3, Len(b) - 1) IN
    IF b_data = <<0, 0, 0>>
    THEN [exc |-> NoExc, response |-> [success |-> TRUE]]
    ELSE IF b_data = <<1, 0, 0>> /\ cmd # "PING"
    THEN [exc |-> "HotplateException", response |-> <<>>]
    ELSE [exc |-> NoExc, response |-> [success |-> FALSE]]

\* parse_ack taking the failure payload as a device error for PING too
parse_ack_ping_fails(cmd, b) ==
    LET b_data == SubSeq(b, 3, Len(b) - 1) IN
    IF b_data = <<0, 0, 0>>
    THEN [exc |-> NoExc, response |-> [success |-> TRUE]]
    ELSE IF b_data = <<1, 0, 0>>
    THEN [exc |-> "HotplateException", response |-> <<>>]
    ELSE [exc |-> "ResponseParseException", response |-> <<>>]

parse_ack(cmd, b) ==
    LET b_data == SubSeq(b, 3, Len(b) - 1) IN
    IF b_data = <<0, 0, 0>>
    THEN [exc |-> NoExc, response |-> [success |-> TRUE]]
    ELSE IF b_data = <<1, 0, 0>> /\ cmd # "PING"
    THEN [exc |-> "HotplateException", response |-> <<>>]
    ELSE [exc |-> "ResponseParseException", response |-> <<>>]

\* parse_response checking the format of whatever bytes came before their
\* number
parse_response_format_first(cmd, b) ==
    IF Len(b) < 3
    THEN [exc |-> "IncompleteResponseException", response |-> <<>>]
    ELSE IF ~(b[1] = 253
              /\ b[2] = value(cmd)
              /\ b[Len(b)] = checksum(SubSeq(b, 2, Len(b) - 1)))
    THEN [exc |-> "ResponseFormatException", response |-> <<>>]
    ELSE IF Len(b) < len_rx(cmd)
    THEN [exc |-> "IncompleteResponseException", response |-> <<>>]
    ELSE IF cmd \in {"PING", "STIR", "HEAT", "_MODE"} THEN parse_ack(cmd, b)
    ELSE IF cmd = "INFO" THEN parse_info(b)
    ELSE parse_status(b)

parse_response(cmd, b) ==
    IF Len(b) < len_rx(cmd)
    THEN [exc |-> "IncompleteResponseException", response |-> <<>>]
    ELSE IF ~(b[1] = 253
              /\ b[2] = value(cmd)
              /\ b[Len(b)] = checksum(SubSeq(b, 2, Len(b) - 1)))
    THEN [exc |-> "ResponseFormatException", response |-> <<>>]
    ELSE IF cmd \in {"PING", "STIR", "HEAT", "_MODE"} THEN parse_ack(cmd, b)
    ELSE IF cmd = "INFO" THEN parse_info(b)
    ELSE parse_status(b)

-----------------------------------------------------------------------------
(* The hotplate on the other end of the line.  Sending a STIR / HEAT value *)
(* stores it and toggles the channel; _MODE steps A -> B -> C -> A.        *)

DevHeatLimit == 3400
DevStirActual == 0
DevHeatActual == 250

CmdOf(opcode) == CHOOSE c \in Commands : value(c) = opcode

Hi(v) == (v \div 256) % 256
Lo(v) == v % 256

Frame(opcode, data) == <<253, opcode>> \o data \o <<checksum(<<opcode>> \o data)>>

\* the hotplate's state after it has received the request frame req
DeviceStep(d, req) ==
    LET v == req[3] * 256 + req[4] IN
    CASE req[2] = 177 -> [d EXCEPT !.stir_set = v, !.stir_on = ~d.stir_on]
      [] req[2] = 178 -> [d EXCEPT !.heat_set = v, !.heat_on = ~d.heat_on]
      [] req[2] = 179 -> [d EXCEPT !.mode = (d.mode % 3) + 1]
      [] OTHER -> d

\* the frame the hotplate in state d answers to the request frame req
DeviceReply(d, req) ==
    CASE req[2] = 161 ->
           Frame(161, <<d.mode,
                        IF d.stir_on THEN 0 ELSE 1,
                        IF d.heat_on THEN 0 ELSE 1,
                        Hi(DevHeatLimit), Lo(DevHeatLimit), 1, 0, 0>>)
      [] req[2] = 162 ->
           Frame(162, <<Hi(d.stir_set), Lo(d.stir_set),
                        Hi(DevStirActual), Lo(DevStirActual),
                        Hi(d.heat_set), Lo(d.heat_set),
                        Hi(DevHeatActual), Lo(DevHeatActual)>>)
      [] OTHER -> Frame(req[2], <<0, 0, 0>>)

IsAck(opcode) == opcode \in {160, 177, 178, 179}

\* What can go wrong in one transaction.  ok: the reply arrives whole.
\* busy: a reader thread of the connection is still alive.  write_fail /
\* read_fail: write() / read() raises.  nodata: the read times out with no
\* byte.  first: it times out after the first byte.  short: it times out
\* one byte early.  badsum: the frame is damaged.  deverr: the hotplate
\* refuses the command (payload 01 00 00).
\* garbage: a checksummed frame with an undefined payload byte.
FaultKinds == {"busy", "write_fail", "read_fail", "nodata", "first", "short",
               "badsum", "deverr", "garbage"}

\* whether the request reaches the hotplate and is acted on
Delivered(kind, req) ==
    /\ kind \notin {"busy", "write_fail", "nodata"}
    /\ ~(kind = "deverr" /\ IsAck(req[2]))

\* the bytes read() hands back for the reply frame f under the fault
Received(kind, req, f) ==
    CASE kind = "short" -> SubSeq(f, 1, Len(f) - 1)
      [] kind = "first" -> SubSeq(f, 1, 1)
      [] kind = "nodata" -> <<>>
      [] kind = "badsum" -> [f EXCEPT ![Len(f)] = (f[Len(f)] + 1) % 256]
      [] kind = "deverr" /\ IsAck(req[2]) -> Frame(req[2], <<1, 0, 0>>)
      [] kind = "garbage" /\ req[2] # 162 ->
           Frame(req[2], [SubSeq(f, 3, Len(f) - 1) EXCEPT ![1] = 255])
      [] OTHER -> f

-----------------------------------------------------------------------------
(* Results of calls: the instance state after the call, the exception      *)
(* raised (NoExc for none) and the value returned.                         *)

Return(ctx, v) == [ctx |-> ctx, exc |-> NoExc, val |-> v]
Raise(ctx, e) == [ctx |-> ctx, exc |-> e, val |-> None]

\* statement sequencing: an exception raised by r propagates, else K goes on
Try(r, K(_)) == IF r.exc # NoExc THEN r ELSE K(r)

\* try: t except Exception: H
Except(t, H(_)) == IF t.exc = NoExc THEN t ELSE H(t)

-----------------------------------------------------------------------------
(* SerialThreadedDuplex.py, as seen by a single caller *)

\* read(size): at most size bytes
Take(b, size) == SubSeq(b, 1, IF Len(b) < size THEN Len(b) ELSE size)

NoFault == [pos |-> 0, kind |-> "ok"]

\* the fault, if any, that hits the next transaction of ctx
KindNow(ctx) ==
    IF ctx.fault.pos = Len(ctx.log) + 1 THEN ctx.fault.kind ELSE "ok"

\* self.write(data): the request is logged and, if delivered, acted on
Written(ctx, data, kind) ==
    [ctx EXCEPT !.dev = IF Delivered(kind, data) THEN DeviceStep(@, data) ELSE @,
                !.log = Append(@, [cmd |-> CmdOf(data[2]),
                                   v |-> data[3] * 256 + data[4],
                                   kind |-> kind])]

\* Serial.value handing back whatever was read, b"" included
Value_unchecked(ctx, kind, got) ==
    IF kind = "busy" THEN Raise(ctx, "Exception")
    ELSE IF kind \in {"write_fail", "read_fail"} THEN Raise(ctx, "SerialException")
    ELSE Return(ctx, got)

\* the busy check of __write_with_function, then Serial.value after the
\* join: the stored exception, else NoData for b"", else the bytes read
Value(ctx, kind, got) ==
    IF kind = "busy" THEN Raise(ctx, "Exception")
    ELSE IF kind \in {"write_fail", "read_fail"} THEN Raise(ctx, "SerialException")
    ELSE IF got = <<>> THEN Raise(ctx, "NoDataException")
    ELSE Return(ctx, got)

\* __read_thread: fn(size) on the reply of the hotplate
Read(ctx, data, size, kind) ==
    Value(ctx, kind, Take(Received(kind, data, DeviceReply(ctx.dev, data)), size))

write_with_read(ctx, data, size) ==
    Read(Written(ctx, data, KindNow(ctx)), data, size, KindNow(ctx))

-----------------------------------------------------------------------------
(* MSHPro.py *)

HEATLIMIT_MAX == 340 * Scale
HEATLIMIT_MIN == 25 * Scale
STIRLIMIT_MAX == 1500 * Scale
STIRLIMIT_MIN == 100 * Scale

EmptyDict == <<>>

\* d.update(x)
Update(d, x) == x @@ d

\* serial_open opening the port whether or not it is open
serial_open_always(ctx) == [ctx EXCEPT !.isOpen = TRUE, !.opens = @ + 1]

serial_open(ctx) ==
    IF ctx.isOpen THEN ctx
    ELSE [ctx EXCEPT !.isOpen = TRUE, !.opens = @ + 1]

\* d.update(command.parse_response(r_bytes)); return d
Parsed(ctx, p, d) ==
    IF p.exc # NoExc THEN Raise(ctx, p.exc)
    ELSE Return(ctx, Update(d, p.response))

\* r_bytes = self.__Serial.write_with_read(w_bytes, size=command.len_rx)
Exchange(ctx, command, w, d) ==
    IF w.exc # NoExc THEN Raise(ctx, w.exc)
    ELSE Try(write_with_read(ctx, w.bytes, len_rx(command)),
             LAMBDA r : Parsed(r.ctx, parse_response(command, r.val), d))

__command(ctx, command, var, d) ==
    Exchange(serial_open(ctx), command, to_bytes(command, var), d)

\* the "Off" sentinels of status(raw_values=False)
NormaliseStir(r) == IF ~r["stir_on"] THEN [r EXCEPT !["stir_set"] = Off] ELSE r
\* NormaliseHeat testing the flag the wrong way round
NormaliseHeat_inverted(r) == IF r["heat_on"] THEN [r EXCEPT !["heat_set"] = Off] ELSE r

NormaliseHeat(r) == IF ~r["heat_on"] THEN [r EXCEPT !["heat_set"] = Off] ELSE r
Normalised(r) == NormaliseStir(NormaliseHeat(r))

status(ctx, raw_values) ==
    Try(__command(ctx, "STATUS", None, EmptyDict), LAMBDA r1 :
    Try(__command(r1.ctx, "INFO", None, r1.val), LAMBDA r2 :
        IF ~raw_values THEN Return(r2.ctx, Normalised(r2.val)) ELSE r2))

\* command.name.lower() followed by "_on" / "_set"
OnKey(command) == IF command = "HEAT" THEN "heat_on" ELSE "stir_on"
SetKey(command) == IF command = "HEAT" THEN "heat_set" ELSE "stir_set"

Logged(ctx, level, command, msg) ==
    [ctx EXCEPT !.msgs = Append(@, [level |-> level, command |-> command, msg |-> msg])]

\* the loop of __off without the already-off test
RECURSIVE off_loop_unchecked(_, _, _)
off_loop_unchecked(ctx, current_status, args) ==
    IF args = <<>> THEN Return(ctx, None)
    ELSE Try(__command(ctx, Head(args), current_status[SetKey(Head(args))],
                       EmptyDict),
             LAMBDA r :
                 off_loop_unchecked(Logged(r.ctx, "info", Head(args), "Success"),
                                    current_status, Tail(args)))

\* the for loop of __off over args
RECURSIVE off_loop(_, _, _)
off_loop(ctx, current_status, args) ==
    IF args = <<>> THEN Return(ctx, None)
    ELSE IF ~current_status[OnKey(Head(args))]
    THEN off_loop(Logged(ctx, "info", Head(args), "Success [already off]"),
                  current_status, Tail(args))
    ELSE Try(__command(ctx, Head(args), current_status[SetKey(Head(args))],
                       EmptyDict),
             LAMBDA r :
                 off_loop(IF r.val["success"]
                          THEN Logged(r.ctx, "info", Head(args), "Success")
                          ELSE Logged(r.ctx, "error", Head(args), "ERROR!"),
                          current_status, Tail(args)))

__off(ctx, args) ==
    Try(status(ctx, FALSE), LAMBDA s : off_loop(s.ctx, s.val, args))

\* return True / False of __setval after one self.__command(..)["success"]
Reported(r, command, msg) ==
    IF r.val["success"] THEN Return(Logged(r.ctx, "info", command, msg), TRUE)
    ELSE Return(Logged(r.ctx, "error", command, "ERROR!"), FALSE)

\* __setval without the second send that switches the channel back on
setval_single_send(ctx, command, set_value, on_status, val) ==
    IF set_value = val /\ on_status THEN Return(ctx, TRUE)
    ELSE Try(__command(ctx, command, val, EmptyDict),
             LAMBDA r : Reported(r, command, "Success"))

\* __setval that sends the value even when the channel is on at the target
setval_always_send(ctx, command, set_value, on_status, val) ==
    Try(__command(ctx, command, val, EmptyDict), LAMBDA r1 :
        IF ~on_status THEN Reported(r1, command, "Success")
        ELSE Try(__command(r1.ctx, command, val, EmptyDict),
                 LAMBDA r2 : Reported(r2, command, "Success")))

\* __setval from `if set_value == val` on
setval_body(ctx, command, set_value, on_status, val) ==
    IF set_value = val
    THEN IF on_status
         THEN Return(Logged(ctx, "info", command,
                            "Success [already at target value]"), TRUE)
         ELSE Try(__command(ctx, command, set_value, EmptyDict),
                  LAMBDA r : Reported(r, command, "Success [switched on]"))
    ELSE Try(__command(ctx, command, val, EmptyDict), LAMBDA r1 :
         IF ~r1.val["success"]
         THEN Return(Logged(r1.ctx, "error", command, "ERROR!"), FALSE)
         ELSE IF ~on_status
         THEN Return(Logged(r1.ctx, "info", command,
                            "Success [set value, switched on]"), TRUE)
         ELSE Try(__command(r1.ctx, command, val, EmptyDict),
                  LAMBDA r2 :
                      Reported(r2, command,
                               "Success [switched off, set value, switched on]")))

__setval(ctx, command, val) ==
    Try(status(ctx, TRUE), LAMBDA s :
        setval_body(s.ctx, command,
                    s.val[SetKey(command)], s.val[OnKey(command)],
                    IF val = None THEN s.val[SetKey(command)] ELSE val))

heat_off(ctx) == __off(ctx, <<"HEAT">>)
stir_off(ctx) == __off(ctx, <<"STIR">>)
off(ctx) == __off(ctx, <<"HEAT", "STIR">>)

\* the try block of heat(): float(val), the range check, __setval
heat_try(ctx, val) ==
    IF ~IsNum(val) THEN Raise(ctx, "ValueError")
    ELSE IF ~(HEATLIMIT_MIN <= val.n /\ val.n <= HEATLIMIT_MAX)
    THEN Try(heat_off(ctx), LAMBDA h : Raise(h.ctx, "ValueError"))
    ELSE Try(__setval(ctx, "HEAT", val), LAMBDA r : Return(r.ctx, None))

\* heat without the except clause that turns heating off
heat_unguarded(ctx, val) ==
    IF ~Truthy(val) THEN heat_off(ctx)
    ELSE heat_try(ctx, val)

heat(ctx, val) ==
    IF ~Truthy(val) THEN heat_off(ctx)
    ELSE Except(heat_try(ctx, val), LAMBDA t :
             Try(heat_off(t.ctx), LAMBDA h : Raise(h.ctx, t.exc)))

\* stir turning stirring off before the range error, as heat does
stir_checked_forced_off(ctx, val) ==
    IF ~(STIRLIMIT_MIN <= val.n /\ val.n <= STIRLIMIT_MAX)
    THEN Try(stir_off(ctx), LAMBDA h : Raise(h.ctx, "ValueError"))
    ELSE Try(__setval(ctx, "STIR", val), LAMBDA r : Return(r.ctx, None))

\* stir() from the range check on, val being int(val)
stir_checked(ctx, val) ==
    IF ~(STIRLIMIT_MIN <= val.n /\ val.n <= STIRLIMIT_MAX)
    THEN Raise(ctx, "ValueError")
    ELSE Try(__setval(ctx, "STIR", val), LAMBDA r : Return(r.ctx, None))

\* stir turning stirring off when an exception is raised, as heat does
stir_guarded(ctx, val) ==
    IF ~Truthy(val) THEN stir_off(ctx)
    ELSE IF ~IsNum(val) THEN Raise(ctx, "ValueError")
    ELSE Except(stir_checked(ctx, Num(Trunc(val.n, Scale) * Scale)), LAMBDA t :
             Try(stir_off(t.ctx), LAMBDA h : Raise(h.ctx, t.exc)))

stir(ctx, val) ==
    IF ~Truthy(val) THEN stir_off(ctx)
    ELSE IF ~IsNum(val) THEN Raise(ctx, "ValueError")
    ELSE stir_checked(ctx, Num(Trunc(val.n, Scale) * Scale))

\* "ABC".index(s): the 0-based position, ValueError when s is not in "ABC"
IndexABC(s) ==
    CASE s = Str("A") -> [exc |-> NoExc, i |-> 0]
      [] s = Str("B") -> [exc |-> NoExc, i |-> 1]
      [] s = Str("C") -> [exc |-> NoExc, i |-> 2]
      [] OTHER -> [exc |-> "ValueError", i |-> 0]

\* for _ in range(n): self.__command(COMMUNICATION._MODE)
RECURSIVE mode_loop(_, _)
mode_loop(ctx, n) ==
    IF n <= 0 THEN Return(ctx, None)
    ELSE Try(__command(ctx, "_MODE", None, EmptyDict),
             LAMBDA r : mode_loop(r.ctx, n - 1))

\* mode_steps with the two indices exchanged
mode_steps_swapped(target_mode, set_mode) == (3 + set_mode - target_mode) % 3

\* range((3 + target_mode - set_mode) % 3)
mode_steps(target_mode, set_mode) == (3 + target_mode - set_mode) % 3

\* mode cycling once at most
mode_indexed_once(ctx, t, c) ==
    IF c.exc # NoExc THEN Raise(ctx, c.exc)
    ELSE mode_loop(ctx, IF mode_steps(t.i, c.i) > 0 THEN 1 ELSE 0)

\* mode() once "ABC".index has been applied to both modes
mode_indexed(ctx, t, c) ==
    IF c.exc # NoExc THEN Raise(ctx, c.exc)
    ELSE mode_loop(ctx, mode_steps(t.i, c.i))

mode(ctx, m) ==
    IF IndexABC(m).exc # NoExc THEN Raise(ctx, IndexABC(m).exc)
    ELSE Try(__command(ctx, "INFO", None, EmptyDict),
             LAMBDA r : mode_indexed(r.ctx, IndexABC(m), IndexABC(r.val["mode"])))

\* ping without the except clause
ping_uncaught(ctx) ==
    Try(__command(ctx, "PING", None, EmptyDict),
        LAMBDA r : Return(r.ctx, r.val["success"] = TRUE))

ping(ctx) ==
    Except(Try(__command(ctx, "PING", None, EmptyDict),
               LAMBDA r : Return(r.ctx, r.val["success"] = TRUE)),
           LAMBDA e : Return(e.ctx, FALSE))

-----------------------------------------------------------------------------
(* The sequencer specification: one action per public method of MSHPro *)

\* transactions of one call that a line fault may hit
MaxFaultPos == 4

Faults == {NoFault} \cup [pos : 1..MaxFaultPos, kind : FaultKinds]

\* sample arguments: falsy, below, at and above the limits, between two
\* tenths of a degree / two rpm, and not a number
HeatArgs == {None, Num(0), Num(2499), Num(2500), Num(20000), Num(20005),
             Num(34001), Str("x")}
StirArgs == {None, Num(9900), Num(20000), Num(20050), Num(150000),
             Num(150100), Str("x")}
ModeArgs == {Str("A"), Str("B"), Str("C"), Str("D")}

DevStates ==
    [stir_set : {200, 1500}, stir_on : BOOLEAN,
     heat_set : {2000, 250}, heat_on : BOOLEAN, mode : 1..3]

Idle == [op |-> "none", arg |-> None, fault |-> NoFault]

Ctx(f) == [dev |-> dev, isOpen |-> isOpen, opens |-> 0, log |-> <<>>,
           msgs |-> <<>>, fault |-> f]

\* the state after a method called as c has ended with result r
Done(c, r) ==
    /\ call = Idle
    /\ dev' = r.ctx.dev
    /\ isOpen' = r.ctx.isOpen
    /\ call' = c
    /\ pre' = dev
    /\ log' = r.ctx.log
    /\ outcome' = [exc |-> r.exc, ret |-> r.val, msgs |-> r.ctx.msgs,
                   opens |-> r.ctx.opens, wasOpen |-> isOpen]
    /\ UNCHANGED <<codecVars, duplexVars>>

Heat(val, f) == Done([op |-> "heat", arg |-> val, fault |-> f], heat(Ctx(f), val))
Stir(val, f) == Done([op |-> "stir", arg |-> val, fault |-> f], stir(Ctx(f), val))
AllOff(f) == Done([op |-> "off", arg |-> None, fault |-> f], off(Ctx(f)))
HeatOff(f) == Done([op |-> "heat_off", arg |-> None, fault |-> f], heat_off(Ctx(f)))
StirOff(f) == Done([op |-> "stir_off", arg |-> None, fault |-> f], stir_off(Ctx(f)))
Mode(m, f) == Done([op |-> "mode", arg |-> m, fault |-> f], mode(Ctx(f), m))
Ping(f) == Done([op |-> "ping", arg |-> None, fault |-> f], ping(Ctx(f)))
Status(raw, f) ==
    Done([op |-> "status", arg |-> Str(IF raw THEN "raw" ELSE "normalised"),
          fault |-> f],
         status(Ctx(f), raw))

serial_close ==
    /\ call = Idle
    /\ isOpen' = FALSE
    /\ call' = [op |-> "serial_close", arg |-> None, fault |-> NoFault]
    /\ pre' = dev
    /\ log' = <<>>
    /\ outcome' = [exc |-> NoExc, ret |-> None, msgs |-> <<>>,
                   opens |-> 0, wasOpen |-> isOpen]
    /\ UNCHANGED <<dev, codecVars, duplexVars>>

\* the object is torn down: self.__Serial.close(); no call follows
__del__ ==
    /\ call = Idle
    /\ isOpen' = FALSE
    /\ call' = [op |-> "__del__", arg |-> None, fault |-> NoFault]
    /\ pre' = dev
    /\ log' = <<>>
    /\ outcome' = [exc |-> NoExc, ret |-> None, msgs |-> <<>>,
                   opens |-> 0, wasOpen |-> isOpen]
    /\ UNCHANGED <<dev, codecVars, duplexVars>>

NoOutcome == [exc |-> NoExc, ret |-> None, msgs |-> <<>>,
              opens |-> 0, wasOpen |-> FALSE]

\* the caller has its result and is ready for the next call
Returned ==
    /\ call # Idle
    /\ call.op # "__del__"
    /\ call' = Idle
    /\ pre' = dev
    /\ log' = <<>>
    /\ outcome' = NoOutcome
    /\ UNCHANGED <<dev, isOpen, codecVars, duplexVars>>

CodecIdle == [op |-> "none"]
DuplexIdle ==
    /\ thr = <<>> /\ rdr = <<>> /\ rx_thread = 0 /\ rx_value = None
    /\ rx_exception = None /\ wire = [buf |-> <<>>, pending |-> <<>>]
    /\ hist = <<>>

Init ==
    /\ dev \in DevStates
    /\ isOpen = FALSE
    /\ call = Idle
    /\ pre = dev
    /\ log = <<>>
    /\ outcome = NoOutcome
    /\ codec = CodecIdle
    /\ DuplexIdle

Next ==
    \/ \E val \in HeatArgs, f \in Faults : Heat(val, f)
    \/ \E val \in StirArgs, f \in Faults : Stir(val, f)
    \/ \E f \in Faults : AllOff(f)
    \/ \E f \in Faults : HeatOff(f)
    \/ \E f \in Faults : StirOff(f)
    \/ \E m \in ModeArgs, f \in Faults : Mode(m, f)
    \/ \E f \in Faults : Ping(f)
    \/ \E raw \in BOOLEAN, f \in Faults : Status(raw, f)
    \/ serial_close
    \/ __del__
    \/ Returned

Spec == Init /\ [][Next]_vars

-----------------------------------------------------------------------------
(* Properties of the sequencer *)

\* the channel a finished call set a value on, if it got past the range check
SetCall ==
    /\ call.op \in {"heat", "stir"}
    /\ call.fault = NoFault
    /\ Truthy(call.arg) /\ IsNum(call.arg)
    /\ IF call.op = "heat"
       THEN HEATLIMIT_MIN <= call.arg.n /\ call.arg.n <= HEATLIMIT_MAX
       ELSE /\ STIRLIMIT_MIN <= Trunc(call.arg.n, Scale) * Scale
            /\ Trunc(call.arg.n, Scale) * Scale <= STIRLIMIT_MAX

Channel == IF call.op = "heat" THEN "HEAT" ELSE "STIR"

\* the channel's set value as STATUS reports it, and its flag, in state d
SetOf(d, command) ==
    IF command = "HEAT" THEN Num(d.heat_set * (Scale \div 10))
    ELSE Num(d.stir_set * Scale)
OnOf(d, command) == IF command = "HEAT" THEN d.heat_on ELSE d.stir_on
WireOf(d, command) == IF command = "HEAT" THEN d.heat_set ELSE d.stir_set

\* the transactions of the log that carry command
Sends(command) == SelectSeq(log, LAMBDA e : e.cmd = command)

StatusRead == <<[cmd |-> "STATUS", v |-> 0, kind |-> "ok"],
                [cmd |-> "INFO", v |-> 0, kind |-> "ok"]>>

\* C1 as stated: after SetHeat / SetStir with an in-range target and every
\* transaction succeeding, the channel is on and its set value equals the
\* target.
C1_AsStated ==
    SetCall =>
        /\ outcome.exc = NoExc
        /\ OnOf(dev, Channel)
        /\ SetOf(dev, Channel) = call.arg

\* C1 (amended): after SetHeat / SetStir with an in-range target and every
\* transaction succeeding, the channel is on and its set value is the value
\* the target encodes to on the wire: int(target) rpm for STIR,
\* int(target * 10) tenths of a degree for HEAT.
C1_FinalState ==
    SetCall =>
        /\ outcome.exc = NoExc
        /\ OnOf(dev, Channel)
        /\ WireOf(dev, Channel) = to_int(Channel, call.arg).v
        /\ (call.arg.n % Scale = 0 /\ (call.op = "heat" => call.arg.n % 10 = 0)
                => SetOf(dev, Channel) = call.arg)

\* a channel that was on at another value has been set and is on again
C1_Witness ==
    /\ SetCall
    /\ OnOf(pre, Channel)
    /\ SetOf(pre, Channel) # call.arg
    /\ OnOf(dev, Channel)
    /\ SetOf(dev, Channel) = call.arg
    /\ Len(Sends(Channel)) = 2

\* the target of a set call as __setval compares it with the set value
Target == IF call.op = "stir" THEN Num(Trunc(call.arg.n, Scale) * Scale) ELSE call.arg

\* C2: after the status read, SetHeat / SetStir issues 0 value-carrying
\* transactions when target == set_value and the channel is on, 1 when
\* target == set_value and it is off, 1 when target != set_value and it is
\* off, 2 when target != set_value and it is on.
C2_TransactionCount ==
    SetCall =>
        /\ SubSeq(log, 1, 2) = StatusRead
        /\ Len(Sends(Channel)) = Len(log) - 2
        /\ Len(log) - 2 =
             IF Target = SetOf(pre, Channel)
             THEN (IF OnOf(pre, Channel) THEN 0 ELSE 1)
             ELSE (IF OnOf(pre, Channel) THEN 2 ELSE 1)

\* the four rows of the table have each been exercised
C2_Witness ==
    /\ SetCall
    /\ Target = SetOf(pre, Channel)
    /\ OnOf(pre, Channel)
    /\ log = StatusRead


\* a finished call that turns the channel of command off, nothing failing
TurnsOff(command) ==
    /\ call.fault = NoFault
    /\ \/ call.op = "off"
       \/ command = "HEAT" /\ call.op = "heat_off"
       \/ command = "HEAT" /\ call.op = "heat" /\ ~Truthy(call.arg)
       \/ command = "STIR" /\ call.op = "stir_off"
       \/ command = "STIR" /\ call.op = "stir" /\ ~Truthy(call.arg)

Channels == {"HEAT", "STIR"}

OutOfRangeHeat ==
    /\ call.op = "heat"
    /\ call.fault = NoFault
    /\ Truthy(call.arg) /\ IsNum(call.arg)
    /\ ~(HEATLIMIT_MIN <= call.arg.n /\ call.arg.n <= HEATLIMIT_MAX)

\* C4: SetHeat with a truthy target outside [25.0, 340.0] fails with
\* OutOfRange (ValueError); the target is never sent; the heat channel is off
\* when the error reaches the caller, a heating device having been toggled
\* exactly once, with its own set value.
C4_OutOfRangeHeat ==
    OutOfRangeHeat =>
        /\ outcome.exc = "ValueError"
        /\ ~dev.heat_on
        /\ dev.heat_set = pre.heat_set
        /\ Sends("HEAT") = IF pre.heat_on
                           THEN <<[cmd |-> "HEAT", v |-> pre.heat_set, kind |-> "ok"]>>
                           ELSE <<>>
        /\ \A i \in 1..Len(log) : log[i].v # to_int("HEAT", call.arg).v
        /\ Sends("STIR") = <<>>

\* a heating device was given 340.01 degC and has been switched off
C4_Witness ==
    /\ OutOfRangeHeat
    /\ call.arg.n > HEATLIMIT_MAX
    /\ pre.heat_on
    /\ ~dev.heat_on
    /\ outcome.exc = "ValueError"

\* C5: TurnOff on a channel that is on sends exactly one transaction of that
\* channel's command, carrying the device's current set value; afterwards
\* the channel is off and its set value unchanged.
C5_TurnOffWhenOn ==
    \A command \in Channels :
        TurnsOff(command) /\ OnOf(pre, command) =>
            /\ outcome.exc = NoExc
            /\ Sends(command) = <<[cmd |-> command, v |-> WireOf(pre, command),
                                   kind |-> "ok"]>>
            /\ ~OnOf(dev, command)
            /\ WireOf(dev, command) = WireOf(pre, command)

C5_Witness ==
    /\ call.op = "heat_off"
    /\ call.fault = NoFault
    /\ pre.heat_on
    /\ ~dev.heat_on
    /\ Len(log) = 3

\* C6: TurnOff on a channel that is already off issues no transaction of that
\* channel's command, completes without error and leaves the channel's flag
\* and set value as they were; when no other channel is turned off in the
\* same call, the status read is the only traffic and the device is unchanged.
C6_TurnOffWhenOff ==
    \A command \in Channels :
        TurnsOff(command) /\ ~OnOf(pre, command) =>
            /\ outcome.exc = NoExc
            /\ \A i \in 1..Len(outcome.msgs) : outcome.msgs[i].level # "error"
            /\ Sends(command) = <<>>
            /\ OnOf(dev, command) = OnOf(pre, command)
            /\ WireOf(dev, command) = WireOf(pre, command)
            /\ (call.op # "off" \/ (~pre.heat_on /\ ~pre.stir_on)
                    => log = StatusRead /\ dev = pre)

C6_Witness ==
    /\ call.op = "stir_off"
    /\ call.fault = NoFault
    /\ ~pre.stir_on
    /\ pre.heat_on
    /\ log = StatusRead
    /\ dev = pre

ModeCall ==
    /\ call.op = "mode"
    /\ call.fault = NoFault
    /\ call.arg \in {Str("A"), Str("B"), Str("C")}

\* the log of a mode call that cycled n times
ModeLog(n) ==
    [i \in 1..(n + 1) |->
        [cmd |-> IF i = 1 THEN "INFO" ELSE "_MODE", v |-> 0, kind |-> "ok"]]

\* C7: SetMode(target) reads the mode with INFO and then issues exactly
\* (3 + targetIndex - currentIndex) mod 3 cycle transactions: none when the
\* mode is already the target, two from A to C.
C7_ModeSteps ==
    ModeCall =>
        /\ outcome.exc = NoExc
        /\ log = ModeLog((3 + IndexABC(call.arg).i - (pre.mode - 1)) % 3)
        /\ (pre.mode = IndexABC(call.arg).i + 1 => log = ModeLog(0))
        /\ (pre.mode = 1 /\ call.arg = Str("C") => Len(Sends("_MODE")) = 2)

C7_Witness ==
    /\ ModeCall
    /\ pre.mode = 1
    /\ call.arg = Str("C")
    /\ Len(Sends("_MODE")) = 2

\* C8: Ping() never raises; whatever fails in the transaction (busy, write
\* or read failure, no data, short read, damaged frame, non-success payload)
\* it returns false, and it returns true only when the PING reply decodes to
\* success.
C8_PingNeverRaises ==
    call.op = "ping" =>
        /\ outcome.exc = NoExc
        /\ outcome.ret \in BOOLEAN
        /\ Len(log) = 1 /\ log[1].cmd = "PING"
        /\ outcome.ret = (log[1].kind = "ok")
        /\ (call.fault.pos = 1 => outcome.ret = FALSE)

C8_Witness ==
    /\ call.op = "ping"
    /\ call.fault = [pos |-> 1, kind |-> "deverr"]
    /\ outcome.exc = NoExc
    /\ outcome.ret = FALSE

StatusCall == call.op = "status" /\ call.fault = NoFault

\* C9: GetStatus issues STATUS and then INFO; normalised, heat_set (stir_set)
\* is "Off" exactly when heat_on (stir_on) is false and the raw target
\* otherwise; raw, the numeric targets are always reported.
C9_Status ==
    StatusCall =>
        /\ outcome.exc = NoExc
        /\ log = StatusRead
        /\ outcome.ret["heat_on"] = pre.heat_on
        /\ outcome.ret["stir_on"] = pre.stir_on
        /\ \A command \in Channels :
              outcome.ret[SetKey(command)] =
                  IF call.arg = Str("normalised") /\ ~outcome.ret[OnKey(command)]
                  THEN Off
                  ELSE SetOf(pre, command)

C9_Witness ==
    /\ StatusCall
    /\ call.arg = Str("normalised")
    /\ ~pre.heat_on /\ pre.stir_on
    /\ outcome.ret["heat_set"] = Off
    /\ outcome.ret["stir_set"] = SetOf(pre, "STIR")

\* stir was called with a truthy whole number of rpm outside
\* [STIRLIMIT_MIN, STIRLIMIT_MAX]
OutOfRangeStir ==
    /\ call.op = "stir"
    /\ Truthy(call.arg) /\ IsNum(call.arg)
    /\ call.arg.n % Scale = 0
    /\ ~(STIRLIMIT_MIN <= call.arg.n /\ call.arg.n <= STIRLIMIT_MAX)

\* C16: SetStir with a truthy target outside [100, 1500] fails with
\* OutOfRange (ValueError) without issuing any transaction: no status read,
\* no STIR send, no stir-off, the connection is not opened and the device
\* state is unchanged.
C16_OutOfRangeStir ==
    OutOfRangeStir =>
        /\ outcome.exc = "ValueError"
        /\ log = <<>>
        /\ outcome.opens = 0
        /\ isOpen = outcome.wasOpen
        /\ dev = pre

\* a stirring device was given 1501 rpm and is still stirring
C16_Witness ==
    /\ OutOfRangeStir
    /\ call.arg.n > STIRLIMIT_MAX
    /\ pre.stir_on
    /\ dev.stir_on
    /\ log = <<>>
    /\ outcome.exc = "ValueError"

\* heat was called with a truthy value and an exception reached the caller
HeatFailed ==
    /\ call.op = "heat"
    /\ Truthy(call.arg)
    /\ outcome.exc # NoExc

\* C17: when heat(val) with a truthy val ends in an exception (a range
\* error, or a transaction of the set-value sequence failing at any step),
\* heating is off when the exception reaches the caller, provided the
\* heat-off transactions are answered.  With one transaction failing per
\* call, a numeric val leaves the heat-off of the except clause unharmed (or
\* heating already off); for a val that is no number the heat-off is the
\* only thing that runs, so none of its transactions may fail.
C17_HeatOffOnException ==
    (HeatFailed /\ (IsNum(call.arg) \/ \A i \in 1..Len(log) : log[i].kind = "ok"))
        => ~dev.heat_on

\* the second send of a set-value sequence reached a heating device, its
\* answer was lost, and the except clause turned heating off again
C17_Witness ==
    /\ HeatFailed
    /\ pre.heat_on
    /\ call.fault.pos = 4
    /\ Len(log) = 7
    /\ log[4].cmd = "HEAT" /\ log[4].kind = "read_fail"
    /\ log[7].cmd = "HEAT" /\ log[7].kind = "ok"
    /\ ~dev.heat_on

\* the read of a transaction of the finished call timed out
TimedOut(i) == log[i].kind \in {"nodata", "first", "short"}

\* a method other than ping was called and one of its reads timed out
ReadTimedOut ==
    /\ call.op \notin {"none", "ping"}
    /\ \E i \in 1..Len(log) : TimedOut(i)

\* C20 as stated: when the read of a command issued through the sequencer
\* times out, the failure surfaced is IncompleteResponseException for every
\* number of collected bytes, no byte at all included.
C20_AsStated ==
    ReadTimedOut => outcome.exc = "IncompleteResponseException"

\* C20 (amended): when the read times out with at least one byte collected,
\* the failure surfaced is IncompleteResponseException, raised by
\* parse_response; with no byte collected it is NoDataException, raised by
\* Serial.value before parse_response is reached.
C20_TimeoutFailure ==
    ReadTimedOut =>
        \A i \in 1..Len(log) :
            TimedOut(i) =>
                outcome.exc = IF log[i].kind = "nodata"
                              THEN "NoDataException"
                              ELSE "IncompleteResponseException"

\* the status read of a set call timed out with no byte collected
C20_Witness ==
    /\ ReadTimedOut
    /\ call.op = "stir"
    /\ log[1].kind = "nodata"
    /\ outcome.exc = "NoDataException"

\* heat / stir was called with an in-range target and an exception reached
\* the caller: one of its transactions failed
SetFailed ==
    /\ call.op \in {"heat", "stir"}
    /\ Truthy(call.arg) /\ IsNum(call.arg)
    /\ IF call.op = "heat"
       THEN HEATLIMIT_MIN <= call.arg.n /\ call.arg.n <= HEATLIMIT_MAX
       ELSE /\ STIRLIMIT_MIN <= Trunc(call.arg.n, Scale) * Scale
            /\ Trunc(call.arg.n, Scale) * Scale <= STIRLIMIT_MAX
    /\ outcome.exc # NoExc

\* the exception a transaction hit by a fault of the kind ends in
FailureOf(kind) ==
    CASE kind = "busy" -> "Exception"
      [] kind \in {"write_fail", "read_fail"} -> "SerialException"
      [] kind = "nodata" -> "NoDataException"
      [] kind \in {"first", "short"} -> "IncompleteResponseException"
      [] kind = "badsum" -> "ResponseFormatException"
      [] kind = "deverr" -> "HotplateException"
      [] kind = "garbage" -> "ResponseParseException"

MethodStep ==
    /\ call = Idle
    /\ call'.op \notin {"none", "serial_close", "__del__"}

\* C24: the connection is closed after construction; a call that issues
\* transactions leaves the connection open, having opened it once if it was
\* closed (after an explicit close too) and not at all if it was open; a
\* call that issues none does not touch it; it is closed by serial_close and
\* by teardown, and by nothing else.
C24_Lifecycle ==
    /\ ~isOpen
    /\ [][/\ MethodStep =>
                /\ outcome'.wasOpen = isOpen
                /\ IF log' # <<>>
                   THEN isOpen' /\ outcome'.opens = (IF isOpen THEN 0 ELSE 1)
                   ELSE isOpen' = isOpen /\ outcome'.opens = 0
          /\ (call = Idle /\ call'.op \in {"serial_close", "__del__"}) => ~isOpen'
          /\ (isOpen /\ ~isOpen') => call'.op \in {"serial_close", "__del__"}
         ]_vars

\* a status read found the connection closed and opened it once
C24_Witness ==
    /\ call.op = "status"
    /\ ~outcome.wasOpen
    /\ outcome.opens = 1
    /\ isOpen
    /\ Len(log) = 2

\* the number the hotplate stores for a mode letter
ModeNumber(m) ==
    CASE m = Str("A") -> 1
      [] m = Str("B") -> 2
      [] m = Str("C") -> 3

\* C25: for every initial mode and every target in {A, B, C}, against a
\* device that advances A to B to C to A on each _MODE command and with all
\* transactions succeeding, mode(target) ends with the device in the target
\* mode.
C25_ModeReached ==
    ModeCall =>
        /\ outcome.exc = NoExc
        /\ dev.mode = ModeNumber(call.arg)

\* from C to A: one cycle command, wrapping round
C25_Witness ==
    /\ ModeCall
    /\ pre.mode = 3
    /\ call.arg = Str("A")
    /\ dev.mode = 1
    /\ Len(Sends("_MODE")) = 1

\* transaction i of the finished call failed: it was hit by a fault that
\* keeps the reply from being read whole and decoded (a STATUS or INFO read
\* has no refusal payload, and a STATUS payload no undefined byte)
Failed(i) ==
    /\ log[i].kind # "ok"
    /\ ~(log[i].kind = "deverr" /\ log[i].cmd \in {"STATUS", "INFO"})
    /\ ~(log[i].kind = "garbage" /\ log[i].cmd = "STATUS")

\* C26: parse_response never returns success false, so the branches of
\* __setval and __off that log ERROR (and return False) are never taken:
\* no call logs an error, and every failed transaction of a call other than
\* ping reaches the caller as an exception.
C26_NoSilentFailure ==
    call.op \notin {"none", "serial_close", "__del__"} =>
        /\ \A i \in 1..Len(outcome.msgs) : outcome.msgs[i].level # "error"
        /\ (call.op # "ping" /\ \E i \in 1..Len(log) : Failed(i))
               => outcome.exc # NoExc

\* the send that turns heating off was answered with an undefined payload:
\* ResponseParseException reaches the caller of off() and nothing is logged
\* as an error
C26_Witness ==
    /\ call.op = "off"
    /\ pre.heat_on
    /\ Len(log) = 3
    /\ log[3].cmd = "HEAT" /\ log[3].kind = "garbage"
    /\ outcome.exc = "ResponseParseException"
    /\ \A i \in 1..Len(outcome.msgs) : outcome.msgs[i].level # "error"

-----------------------------------------------------------------------------
(* The duplex specification: SerialThreadedDuplex.Serial shared by callers  *)
(* that run __write_with_function statement by statement, with the reader  *)
(* threads they start and the device answering on the line.                *)

\* size argument of read(): the length of a reply
ReplyLen == 2

\* the threads that call write_with_read on the one connection
Callers == {1, 2}

\* transactions the transacting caller issues one after the other
MaxCalls == 2

\* the thread objects the callers can create: one per transaction
ThreadIds == 1..(Cardinality(Callers) * MaxCalls)

Bytes(b) == [kind |-> "bytes", b |-> b]
Exc(e) == [kind |-> "exc", e |-> e]

\* the reply of the device to a request of caller c
Reply(c) == [i \in 1..ReplyLen |-> c]

\* threading.Thread.is_alive() of thread object t
Alive(t) == rdr[t].pc \notin {"created", "done"}

\* who made a value: transaction n of caller c, on the caller's thread or on
\* the reader thread it started
Id(c) == [c |-> c, n |-> thr[c].txn, who |-> "caller"]
RId(t) == [c |-> rdr[t].owner, n |-> rdr[t].txn, who |-> "reader"]
Tag(v, id) == v @@ [by |-> id]

Goto(c, pc) == thr' = [thr EXCEPT ![c].pc = pc]
Fail(c, e) == thr' = [thr EXCEPT ![c].pc = "W9", ![c].err = Tag(e, Id(c))]

\* the call ends: the caller is handed val or has exc raised to it
Leave(c, exc, val) ==
    /\ thr' = [thr EXCEPT ![c].pc = "idle"]
    /\ hist' = [hist EXCEPT ![c] = [exc |-> exc, val |-> val,
                                    readers |-> {t \in 1..Len(rdr) : Alive(t)},
                                    failed |-> {t \in 1..Len(rdr) : rdr[t].failed},
                                    op |-> thr[c].op, txn |-> thr[c].txn]]

\* write_with_read(data, size) is called
Call(c) ==
    /\ thr[c].pc = "idle"
    /\ thr[c].left > 0
    /\ thr' = [thr EXCEPT ![c].pc = "W1", ![c].left = @ - 1, ![c].err = None,
                           ![c].txn = @ + 1, ![c].op = "transact"]
    /\ UNCHANGED <<rdr, rx_thread, rx_value, rx_exception, wire, hist>>
    /\ UNCHANGED <<seqVars, codecVars>>

\* the value property of the connection is read
GetValue(c) ==
    /\ thr[c].pc = "idle"
    /\ thr[c].reads > 0
    /\ thr' = [thr EXCEPT ![c].pc = "V1", ![c].reads = @ - 1, ![c].op = "value"]
    /\ UNCHANGED <<rdr, rx_thread, rx_value, rx_exception, wire, hist>>
    /\ UNCHANGED <<seqVars, codecVars>>

\* if self.__rx_thread is not None and self.__rx_thread.is_alive(): raise
BusyCheck(c) ==
    /\ thr[c].pc = "W1"
    /\ IF rx_thread # 0 /\ Alive(rx_thread)
       THEN Leave(c, Tag(Exc("Exception: Rx thread already started."), Id(c)), None)
       ELSE Goto(c, "W2") /\ UNCHANGED hist
    /\ UNCHANGED <<rdr, rx_thread, rx_value, rx_exception, wire>>
    /\ UNCHANGED <<seqVars, codecVars>>

\* self.__rx_value = None
ClearValue(c) ==
    /\ thr[c].pc = "W2"
    /\ rx_value' = None
    /\ Goto(c, "W3")
    /\ UNCHANGED <<rdr, rx_thread, rx_exception, wire, hist>>
    /\ UNCHANGED <<seqVars, codecVars>>

\* self.__rx_exception = None
\* mutant: the exception slot is left as the previous transaction filled it
ClearException_kept(c) ==
    /\ thr[c].pc = "W3"
    /\ Goto(c, "W4")
    /\ UNCHANGED <<rdr, rx_thread, rx_value, rx_exception, wire, hist>>
    /\ UNCHANGED <<seqVars, codecVars>>

ClearException(c) ==
    /\ thr[c].pc = "W3"
    /\ rx_exception' = None
    /\ Goto(c, "W4")
    /\ UNCHANGED <<rdr, rx_thread, rx_value, wire, hist>>
    /\ UNCHANGED <<seqVars, codecVars>>

\* self.reset_output_buffer(), which raises when the port fails
ResetOutput(c) ==
    /\ thr[c].pc = "W4"
    /\ \/ Goto(c, "W5")
       \/ Fail(c, Exc("SerialException"))
    /\ UNCHANGED <<rdr, rx_thread, rx_value, rx_exception, wire, hist>>
    /\ UNCHANGED <<seqVars, codecVars>>

\* self.__rx_thread = threading.Thread(target=self.__read_thread, ...)
CreateThread(c) ==
    /\ thr[c].pc = "W5"
    /\ rdr' = Append(rdr, [pc |-> "created", owner |-> c, txn |-> thr[c].txn,
                           failed |-> FALSE, got |-> None])
    /\ rx_thread' = Len(rdr) + 1
    /\ Goto(c, "W6")
    /\ UNCHANGED <<rx_value, rx_exception, wire, hist>>
    /\ UNCHANGED <<seqVars, codecVars>>

\* self.__rx_thread.start(): a thread can be started once only
StartThread(c) ==
    /\ thr[c].pc = "W6"
    /\ IF rdr[rx_thread].pc = "created"
       THEN /\ rdr' = [rdr EXCEPT ![rx_thread].pc = "R1"]
            /\ Goto(c, "W7")
       ELSE /\ Fail(c, Exc("RuntimeError"))
            /\ UNCHANGED rdr
    /\ UNCHANGED <<rx_thread, rx_value, rx_exception, wire, hist>>
    /\ UNCHANGED <<seqVars, codecVars>>

\* self.write(data): the device will answer, or the write raises
Write(c) ==
    /\ thr[c].pc = "W7"
    /\ \/ /\ wire' = [wire EXCEPT !.pending = @ \o Reply(c)]
          /\ Goto(c, "W8")
       \/ /\ Fail(c, Exc("SerialException"))
          /\ UNCHANGED wire
    /\ UNCHANGED <<rdr, rx_thread, rx_value, rx_exception, hist>>
    /\ UNCHANGED <<seqVars, codecVars>>

\* self.__rx_thread.join() is entered: a thread not started cannot be joined
JoinBegin(c) ==
    /\ thr[c].pc = "W8"
    /\ IF rdr[rx_thread].pc = "created"
       THEN Fail(c, Exc("RuntimeError"))
       ELSE thr' = [thr EXCEPT ![c].pc = "W8j", ![c].jt = rx_thread]
    /\ UNCHANGED <<rdr, rx_thread, rx_value, rx_exception, wire, hist>>
    /\ UNCHANGED <<seqVars, codecVars>>

\* join() returns once the joined thread has ended
JoinEnd(c) ==
    /\ thr[c].pc = "W8j"
    /\ rdr[thr[c].jt].pc = "done"
    /\ Goto(c, "V1")
    /\ UNCHANGED <<rdr, rx_thread, rx_value, rx_exception, wire, hist>>
    /\ UNCHANGED <<seqVars, codecVars>>

\* except Exception as e: self.__rx_value = None
HandlerValue(c) ==
    /\ thr[c].pc = "W9"
    /\ rx_value' = None
    /\ Goto(c, "W10")
    /\ UNCHANGED <<rdr, rx_thread, rx_exception, wire, hist>>
    /\ UNCHANGED <<seqVars, codecVars>>

\* self.__rx_exception = e
HandlerException(c) ==
    /\ thr[c].pc = "W10"
    /\ rx_exception' = thr[c].err
    /\ Goto(c, "V1")
    /\ UNCHANGED <<rdr, rx_thread, rx_value, wire, hist>>
    /\ UNCHANGED <<seqVars, codecVars>>

\* Serial.value: self.exception()
ValueException(c) ==
    /\ thr[c].pc = "V1"
    /\ IF rx_exception # None
       THEN Leave(c, rx_exception, None)
       ELSE Goto(c, "V2") /\ UNCHANGED hist
    /\ UNCHANGED <<rdr, rx_thread, rx_value, rx_exception, wire>>
    /\ UNCHANGED <<seqVars, codecVars>>

\* Serial.value: the is_alive() test
ValueAlive(c) ==
    /\ thr[c].pc = "V2"
    /\ IF rx_thread # 0 /\ Alive(rx_thread)
       THEN Leave(c, Tag(Exc("ReadingNotCompleteException"), Id(c)), None)
       ELSE Goto(c, "V3") /\ UNCHANGED hist
    /\ UNCHANGED <<rdr, rx_thread, rx_value, rx_exception, wire>>
    /\ UNCHANGED <<seqVars, codecVars>>

\* Serial.value: the tests of self.__rx_value and the return
ValueReturn(c) ==
    /\ thr[c].pc = "V3"
    /\ IF rx_value = None
       THEN Leave(c, Tag(Exc("NoCommunicationException"), Id(c)), None)
       ELSE IF rx_value.b = <<>>
       THEN Leave(c, Tag(Exc("NoDataException"), Id(c)), None)
       ELSE Leave(c, None, rx_value)
    /\ UNCHANGED <<rdr, rx_thread, rx_value, rx_exception, wire>>
    /\ UNCHANGED <<seqVars, codecVars>>

ReaderGoto(t, pc) == rdr' = [rdr EXCEPT ![t].pc = pc]
ReaderFail(t) == rdr' = [rdr EXCEPT ![t].pc = "R4", ![t].failed = TRUE]

\* __read_thread: self.reset_input_buffer()
ResetInput(t) ==
    /\ t \in DOMAIN rdr
    /\ rdr[t].pc = "R1"
    /\ \/ /\ wire' = [wire EXCEPT !.buf = <<>>]
          /\ ReaderGoto(t, "R2")
       \/ /\ ReaderFail(t)
          /\ UNCHANGED wire
    /\ UNCHANGED <<thr, rx_thread, rx_value, rx_exception, hist>>
    /\ UNCHANGED <<seqVars, codecVars>>

\* self.__rx_value = b""
ReaderInit(t) ==
    /\ t \in DOMAIN rdr
    /\ rdr[t].pc = "R2"
    /\ rx_value' = Tag(Bytes(<<>>), RId(t))
    /\ ReaderGoto(t, "R3")
    /\ UNCHANGED <<thr, rx_thread, rx_exception, wire, hist>>
    /\ UNCHANGED <<seqVars, codecVars>>

\* self.__rx_value = fn(size): size bytes, or on timeout those that came
ReaderRead(t) ==
    /\ t \in DOMAIN rdr
    /\ rdr[t].pc = "R3"
    /\ \/ /\ rx_value' = Tag(Bytes(Take(wire.buf, ReplyLen)), RId(t))
          /\ wire' = [wire EXCEPT !.buf = SubSeq(@, Len(Take(@, ReplyLen)) + 1, Len(@))]
          /\ rdr' = [rdr EXCEPT ![t].pc = "done",
                                 ![t].got = Bytes(Take(wire.buf, ReplyLen))]
       \/ /\ ReaderFail(t)
          /\ UNCHANGED <<rx_value, wire>>
    /\ UNCHANGED <<thr, rx_thread, rx_exception, hist>>
    /\ UNCHANGED <<seqVars, codecVars>>

\* except Exception as e: self.__rx_value = None
ReaderExceptValue(t) ==
    /\ t \in DOMAIN rdr
    /\ rdr[t].pc = "R4"
    /\ rx_value' = None
    /\ ReaderGoto(t, "R5")
    /\ UNCHANGED <<thr, rx_thread, rx_exception, wire, hist>>
    /\ UNCHANGED <<seqVars, codecVars>>

\* self.__rx_exception = e
ReaderExceptException(t) ==
    /\ t \in DOMAIN rdr
    /\ rdr[t].pc = "R5"
    /\ rx_exception' = Tag(Exc("SerialException"), RId(t))
    /\ ReaderGoto(t, "done")
    /\ UNCHANGED <<thr, rx_thread, rx_value, wire, hist>>
    /\ UNCHANGED <<seqVars, codecVars>>

\* the device puts the next byte of its reply on the line
DeviceSend ==
    /\ wire.pending # <<>>
    /\ wire' = [buf |-> Append(wire.buf, Head(wire.pending)),
                pending |-> Tail(wire.pending)]
    /\ UNCHANGED <<thr, rdr, rx_thread, rx_value, rx_exception, hist>>
    /\ UNCHANGED <<seqVars, codecVars>>

NoResult ==
    [exc |-> None, val |-> None, readers |-> {}, failed |-> {}, op |-> "none",
     txn |-> 0]

\* a caller that will issue calls transactions and read the value property
\* reads times
Caller(calls, reads) ==
    [pc |-> "idle", left |-> calls, reads |-> reads, jt |-> 0, err |-> None,
     txn |-> 0, op |-> "none"]

\* the state of a connection just constructed, nothing running on it
Fresh ==
    /\ rdr = <<>>
    /\ rx_thread = 0
    /\ rx_value = None
    /\ rx_exception = None
    /\ hist = [c \in Callers |-> NoResult]
    /\ dev \in {d \in DevStates : d.heat_set = 2000 /\ d.stir_set = 200
                                  /\ d.mode = 1 /\ ~d.heat_on /\ ~d.stir_on}
    /\ isOpen = TRUE
    /\ call = Idle
    /\ pre = dev
    /\ log = <<>>
    /\ outcome = NoOutcome
    /\ codec = CodecIdle

\* two callers with one transaction each; the second reads the value
\* property once as well
InitDuplex ==
    /\ thr = [c \in Callers |-> Caller(1, c - 1)]
    \* the line is clean, or holds a byte 0 left unread by earlier traffic
    /\ wire \in {[buf |-> <<>>, pending |-> <<>>],
                 [buf |-> <<0>>, pending |-> <<>>]}
    /\ Fresh

NextDuplex ==
    \/ \E c \in Callers :
          \/ Call(c) \/ GetValue(c) \/ BusyCheck(c) \/ ClearValue(c) \/ ClearException(c)
          \/ ResetOutput(c) \/ CreateThread(c) \/ StartThread(c) \/ Write(c)
          \/ JoinBegin(c) \/ JoinEnd(c) \/ HandlerValue(c)
          \/ HandlerException(c) \/ ValueException(c) \/ ValueAlive(c)
          \/ ValueReturn(c)
    \/ \E t \in ThreadIds :
          \/ ResetInput(t) \/ ReaderInit(t) \/ ReaderRead(t)
          \/ ReaderExceptValue(t) \/ ReaderExceptException(t)
    \/ DeviceSend

SpecDuplex == InitDuplex /\ [][NextDuplex]_vars

\* one caller issuing MaxCalls transactions one after the other, while a
\* second thread reads the value property once, at any moment
InitTransact ==
    /\ thr = [c \in Callers |-> IF c = 1 THEN Caller(MaxCalls, 0) ELSE Caller(0, 1)]
    /\ wire \in {[buf |-> <<>>, pending |-> <<>>],
                 [buf |-> <<0>>, pending |-> <<>>]}
    /\ Fresh

SpecTransact == InitTransact /\ [][NextDuplex]_vars

\* a caller is past the busy check and has not returned
InFlight(c) == thr[c].pc \notin {"idle", "W1"}

\* C3: when two callers' transactions overlap, the second fails with Busy:
\* never are two callers past the busy check at once, and never are two
\* reader workers active on the connection.
C3_SecondIsBusy ==
    /\ \A c1, c2 \in Callers : c1 # c2 => ~(InFlight(c1) /\ InFlight(c2))
    /\ Cardinality({t \in 1..Len(rdr) : Alive(t)}) <= 1

\* C18: write_with_read never returns to its caller, with bytes or with an
\* exception, while the reader thread it started is still running, a failed
\* write included: a caller that is back has no live reader of its own.
C18_ReturnsAfterReader ==
    \A c \in Callers :
        thr[c].pc = "idle" =>
            \A t \in DOMAIN rdr : rdr[t].owner = c => ~Alive(t)

\* reader thread t executes self.reset_input_buffer() in this step
ResetInputStep(t) ==
    /\ t \in DOMAIN rdr
    /\ rdr[t].pc = "R1"
    /\ rdr'[t].pc = "R2"

\* C19: in every transaction the input buffer is discarded before any byte
\* of the request is written, so that under every interleaving of caller and
\* reader no byte of the reply to this request is discarded.
C19_DiscardBeforeWrite ==
    [][\A t \in ThreadIds :
          ResetInputStep(t) =>
              /\ thr[rdr[t].owner].pc = "W7"
              /\ \A i \in DOMAIN wire.buf : wire.buf[i] # rdr[t].owner]_vars

\* caller c is back from a transaction and has started nothing since
Transacted(c) == thr[c].pc = "idle" /\ thr[c].op = "transact"

\* the reader threads transaction n of caller c started
ReaderOf(c, n) == {t \in 1..Len(rdr) : rdr[t].owner = c /\ rdr[t].txn = n}

\* what the last call of caller c gave back: the exception raised, or else the
\* value returned
Surfaced(c) == IF hist[c].exc # None THEN hist[c].exc ELSE hist[c].val

\* C22 as stated: a transaction whose reader had raised a failure by the time
\* the transaction came back raises that failure, the one the reader stored.
C22_AsStated ==
    \A c \in Callers :
        Transacted(c) =>
            \A t \in ReaderOf(c, thr[c].txn) \cap hist[c].failed :
                /\ hist[c].exc # None
                /\ hist[c].exc.by = [c |-> c, n |-> thr[c].txn, who |-> "reader"]

\* C22 (amended): a transaction whose reader raised a failure never returns
\* bytes: it raises a failure of that same transaction, the reader's own
\* whenever the write succeeded. And whatever a transaction gives back, bytes
\* or failure, was produced by that transaction and not by an earlier one:
\* the slots are reset at its start.
C22_ReaderFailure ==
    \A c \in Callers :
        Transacted(c) =>
            /\ Surfaced(c).by.c = c
            /\ Surfaced(c).by.n = thr[c].txn
            /\ \A t \in ReaderOf(c, thr[c].txn) :
                   rdr[t].failed =>
                       /\ hist[c].val = None
                       /\ hist[c].exc # None
                       /\ hist[c].exc.e = "SerialException"
                       /\ thr[c].err = None => hist[c].exc.by.who = "reader"

\* the second transaction of a caller comes back with the failure its own
\* reader raised, the write having succeeded, after a first transaction whose
\* reader had collected bytes
C22_Witness ==
    \E c \in Callers :
        /\ Transacted(c)
        /\ thr[c].txn = 2
        /\ thr[c].err = None
        /\ \E t \in ReaderOf(c, 2) : rdr[t].failed
        /\ hist[c].exc # None
        /\ hist[c].exc.by = [c |-> c, n |-> 2, who |-> "reader"]
        /\ \E t \in ReaderOf(c, 1) : rdr[t].got # None /\ rdr[t].got.b # <<>>

\* the value property decided by its own checks: it returned bytes or raised
\* one of its three exceptions, not a stored failure
OwnVerdict(c) ==
    \/ hist[c].exc = None
    \/ hist[c].exc.e \in {"ReadingNotCompleteException",
                          "NoCommunicationException", "NoDataException"}

\* C23: an access to the value property that finds no stored failure fails
\* with ReadingNotCompleteException whenever a reader thread is running as
\* the access is answered.
C23_NotCompleteWhileReading ==
    \A c \in Callers :
        (hist[c].op = "value" /\ OwnVerdict(c) /\ hist[c].readers # {}) =>
            /\ hist[c].exc # None
            /\ hist[c].exc.e = "ReadingNotCompleteException"

-----------------------------------------------------------------------------
(* The codec specification: COMMUNICATION.to_bytes and                     *)
(* COMMUNICATION.parse_response applied to values and byte strings.        *)

\* values handed to to_bytes
EncodeArgs == {None, Off, Num(0), Num(-100), Num(99), Num(20000), Num(20005),
               Num(655350), Num(655360), Num(6553500), Num(6553600)}

\* mode bytes of an INFO reply: the placeholder index, A, B, C, and two
\* indices past the end of "_ABC"
ModeBytes == {0, 1, 2, 3, 4, 255}

\* payloads a reply to cmd can carry
Payloads(cmd) ==
    IF cmd = "INFO"
    THEN {<<m, s, h, Hi(DevHeatLimit), Lo(DevHeatLimit), a, 0, 0>> :
              m \in ModeBytes, s \in {0, 1}, h \in {0, 1}, a \in {0, 1}}
    ELSE IF cmd = "STATUS"
    THEN {<<Hi(ss), Lo(ss), Hi(DevStirActual), Lo(DevStirActual),
            Hi(hs), Lo(hs), Hi(DevHeatActual), Lo(DevHeatActual)>> :
              ss \in {0, 200, 1500, 65535}, hs \in {0, 250, 2000, 65535}}
    ELSE {<<0, 0, 0>>, <<1, 0, 0>>, <<0, 1, 0>>, <<0, 0, 1>>, <<2, 0, 0>>,
          <<1, 1, 0>>}

\* what the line does to the contents of a frame before parse_response
\* sees it
Damages == {"none", "marker", "opcode", "checksum"}

Damaged(f, damage) ==
    CASE damage = "marker" -> [f EXCEPT ![1] = 254]
      [] damage = "opcode" -> [f EXCEPT ![2] = (@ + 1) % 256]
      [] damage = "checksum" -> [f EXCEPT ![Len(f)] = (@ + 1) % 256]
      [] OTHER -> f

\* the largest value the two value bytes of a frame hold
MaxWire == 65535

\* the values a frame can carry
WireValues == 0..MaxWire

\* the Python number that stands for the wire value v of cmd: v rpm for
\* STIR, v tenths of a degree for HEAT
InUnits(cmd, v) == IF cmd = "HEAT" THEN Num(v * (Scale \div 10)) ELSE Num(v * Scale)

\* cmd.to_bytes(val)
Encode ==
    /\ codec = CodecIdle
    /\ \E cmd \in Commands, val \in EncodeArgs :
          codec' = [op |-> "to_bytes", cmd |-> cmd, arg |-> val, b |-> <<>>,
                    res |-> to_bytes(cmd, val)]
    /\ UNCHANGED <<seqVars, duplexVars>>

\* cmd.to_bytes(val) of STIR and HEAT for every value a frame can carry
EncodeValue ==
    /\ codec = CodecIdle
    /\ \E cmd \in {"STIR", "HEAT"}, v \in WireValues :
          codec' = [op |-> "to_bytes", cmd |-> cmd, arg |-> InUnits(cmd, v),
                    b |-> <<>>, res |-> to_bytes(cmd, InUnits(cmd, v))]
    /\ UNCHANGED <<seqVars, duplexVars>>

\* cmd.parse_response(b) of what read() handed back: the first keep bytes
\* of a reply frame
Decode ==
    /\ codec = CodecIdle
    /\ \E cmd \in Commands, damage \in Damages :
          \E data \in Payloads(cmd), keep \in 0..len_rx(cmd) :
             LET b == Take(Damaged(Frame(value(cmd), data), damage), keep) IN
             codec' = [op |-> "parse_response", cmd |-> cmd, arg |-> None,
                       b |-> b, res |-> parse_response(cmd, b)]
    /\ UNCHANGED <<seqVars, duplexVars>>

\* STIR.to_bytes(v), the value bytes of the request echoed by a device as
\* the stir_set field of its STATUS reply, STATUS.parse_response(reply)
RoundTrip ==
    /\ codec = CodecIdle
    /\ \E v \in WireValues :
          LET request == to_bytes("STIR", InUnits("STIR", v)).bytes
              reply == Frame(value("STATUS"),
                             <<request[3], request[4],
                               Hi(DevStirActual), Lo(DevStirActual),
                               Hi(DevHeatActual), Lo(DevHeatActual),
                               Hi(DevHeatActual), Lo(DevHeatActual)>>)
          IN codec' = [op |-> "round_trip", cmd |-> "STIR",
                       arg |-> InUnits("STIR", v), b |-> reply,
                       res |-> parse_response("STATUS", reply)]
    /\ UNCHANGED <<seqVars, duplexVars>>

\* the call has returned
CodecReturn ==
    /\ codec # CodecIdle
    /\ codec' = CodecIdle
    /\ UNCHANGED <<seqVars, duplexVars>>

InitCodec ==
    /\ codec = CodecIdle
    /\ dev \in {d \in DevStates : d.heat_set = 2000 /\ d.stir_set = 200
                                  /\ d.mode = 1 /\ ~d.heat_on /\ ~d.stir_on}
    /\ isOpen = FALSE
    /\ call = Idle
    /\ pre = dev
    /\ log = <<>>
    /\ outcome = NoOutcome
    /\ DuplexIdle

NextCodec == Encode \/ EncodeValue \/ Decode \/ RoundTrip \/ CodecReturn

SpecCodec == InitCodec /\ [][NextCodec]_vars

\* parse_response was applied to a full-length INFO reply with the right
\* marker, opcode echo and checksum
InfoDecoded ==
    /\ codec.op = "parse_response"
    /\ codec.cmd = "INFO"
    /\ Len(codec.b) = len_rx("INFO")
    /\ codec.b[1] = 253
    /\ codec.b[2] = value("INFO")
    /\ codec.b[Len(codec.b)] = checksum(SubSeq(codec.b, 2, Len(codec.b) - 1))

\* C10: decoding an INFO response with mode byte 1, 2 or 3 yields mode A, B
\* or C; a mode byte of 0 or above 3 fails with ResponseParseException and
\* yields no mode value.
C10_ModeByte ==
    InfoDecoded =>
        LET m == codec.b[3] IN
        CASE m = 1 -> codec.res.exc = NoExc /\ codec.res.response.mode = Str("A")
          [] m = 2 -> codec.res.exc = NoExc /\ codec.res.response.mode = Str("B")
          [] m = 3 -> codec.res.exc = NoExc /\ codec.res.response.mode = Str("C")
          [] OTHER -> codec.res.exc = "ResponseParseException"

\* the bytes handed to parse_response have the right marker, opcode echo
\* and checksum
WellFormed(cmd, b) ==
    /\ b[1] = 253
    /\ b[2] = value(cmd)
    /\ b[Len(b)] = checksum(SubSeq(b, 2, Len(b) - 1))

\* parse_response was applied to a well-formed 6-byte acknowledgement
AckDecoded ==
    /\ codec.op = "parse_response"
    /\ codec.cmd \in {"PING", "STIR", "HEAT", "_MODE"}
    /\ Len(codec.b) = 6
    /\ WellFormed(codec.cmd, codec.b)

\* C11: a well-formed acknowledgement with payload 00 00 00 decodes to
\* success; payload 01 00 00 fails with HotplateException for STIR, HEAT and
\* _MODE but with ResponseParseException for PING; every other payload fails
\* with ResponseParseException.
C11_Acknowledgement ==
    AckDecoded =>
        LET payload == SubSeq(codec.b, 3, 5) IN
        CASE payload = <<0, 0, 0>> ->
               codec.res.exc = NoExc /\ codec.res.response.success
          [] payload = <<1, 0, 0>> ->
               codec.res.exc = IF codec.cmd = "PING"
                               THEN "ResponseParseException"
                               ELSE "HotplateException"
          [] OTHER -> codec.res.exc = "ResponseParseException"

C11_Witness ==
    /\ AckDecoded
    /\ codec.cmd = "PING"
    /\ SubSeq(codec.b, 3, 5) = <<1, 0, 0>>
    /\ codec.res.exc = "ResponseParseException"

\* C12: bytes fewer than the expected response length (6, or 11 for INFO and
\* STATUS) fail with IncompleteResponseException whatever they hold and
\* return no response; a full-length response with a wrong marker, opcode
\* echo or checksum fails with ResponseFormatException.
C12_LengthThenFormat ==
    codec.op = "parse_response" =>
        IF Len(codec.b) < (IF codec.cmd \in {"INFO", "STATUS"} THEN 11 ELSE 6)
        THEN /\ codec.res.exc = "IncompleteResponseException"
             /\ codec.res.response = <<>>
        ELSE ~WellFormed(codec.cmd, codec.b) =>
                 codec.res.exc = "ResponseFormatException"

C12_Witness ==
    /\ codec.op = "parse_response"
    /\ codec.cmd = "INFO"
    /\ Len(codec.b) = 10
    /\ codec.b[1] # 253
    /\ codec.res.exc = "IncompleteResponseException"

\* the integer to_bytes puts on the wire for val: whole rpm for STIR, whole
\* tenths of a degree for HEAT, 0 for the commands that carry no value
WireInt(cmd, val) ==
    CASE cmd = "STIR" -> Trunc(val.n, Scale)
      [] cmd = "HEAT" -> Trunc(val.n * 10, Scale)
      [] OTHER -> 0

\* to_bytes returned a frame
Encoded == codec.op = "to_bytes" /\ codec.res.exc = NoExc

\* C13: every frame to_bytes returns is the 6 bytes FE, opcode, v div 256,
\* v mod 256, 00, (opcode + v div 256 + v mod 256) mod 256, with v = 0 for
\* PING, INFO, STATUS and _MODE, so that PING is FE A0 00 00 00 A0.
C13_RequestFrame ==
    Encoded =>
        LET v == WireInt(codec.cmd, codec.arg)
            opcode == value(codec.cmd)
        IN /\ v \in WireValues
           /\ codec.res.bytes =
                  <<254, opcode, v \div 256, v % 256, 0,
                    (opcode + (v \div 256) + (v % 256)) % 256>>
           /\ codec.cmd = "PING" => codec.res.bytes = <<254, 160, 0, 0, 0, 160>>

C13_Witness ==
    /\ Encoded
    /\ codec.cmd = "HEAT"
    /\ WireInt(codec.cmd, codec.arg) = MaxWire
    /\ codec.res.bytes = <<254, 178, 255, 255, 0, 176>>

\* C14: to_bytes of STIR or HEAT raises ValueError and returns no frame when
\* no value is supplied and when the encoded integer lies outside
\* [0, 65535]; HEAT of 200.0 carries the value bytes 07 D0.
C14_InvalidValue ==
    (codec.op = "to_bytes" /\ codec.cmd \in {"STIR", "HEAT"}) =>
        /\ (codec.arg = None \/ (IsNum(codec.arg)
                                 /\ WireInt(codec.cmd, codec.arg) \notin 0..65535))
              => (codec.res.exc = "ValueError" /\ codec.res.bytes = <<>>)
        /\ (codec.cmd = "HEAT" /\ codec.arg = Num(200 * Scale))
              => (codec.res.exc = NoExc /\ SubSeq(codec.res.bytes, 3, 4) = <<7, 208>>)

C14_Witness ==
    /\ codec.op = "to_bytes"
    /\ codec.cmd = "HEAT"
    /\ IsNum(codec.arg)
    /\ WireInt(codec.cmd, codec.arg) = 65536
    /\ codec.res.exc = "ValueError"
    /\ codec.res.bytes = <<>>

\* C15: for every integer v in [0, 65535], the value bytes of
\* STIR.to_bytes(v), echoed as the stir_set field of a well-formed STATUS
\* reply, decode to stir_set = v.
C15_RoundTrip ==
    codec.op = "round_trip" =>
        /\ codec.res.exc = NoExc
        /\ codec.res.response.stir_set = codec.arg

C15_Witness ==
    /\ codec.op = "round_trip"
    /\ codec.arg = Num(258 * Scale)
    /\ SubSeq(codec.b, 3, 4) = <<1, 2>>
    /\ codec.res.response.stir_set = Num(258 * Scale)

====
